---- MODULE Spec2Model ----
(***************************************************************************)
(* Task planner: one table of tasks (tasks/models.py) shared by the web    *)
(* views (tasks/views.py) and the Telegram bot (bot/bot.py), whose         *)
(* scheduler runs check_deadlines every 60 seconds.                        *)
(*                                                                         *)
(* Time is counted in minutes.  An aware datetime is kept as its UTC       *)
(* instant, a naive one as its wall-clock reading; instant 0 is            *)
(* 01.01.2026 00:00 UTC.                                                   *)
(***************************************************************************)
EXTENDS Integers, Sequences, FiniteSets, TLC

VARIABLES
    tasks,          \* the Task table: id -> row, for the rows that exist
    nextId,         \* the table's AUTOINCREMENT counter
    clock,          \* timezone.now(), as a UTC instant
    YOUR_CHAT_ID,   \* bot.py:82, 0 when TELEGRAM_CHAT_ID is not set
    sweep,          \* check_deadlines: its position and local variables
    faults,         \* failed sends and failed storage writes so far
    web,            \* the web request being served: the view, its object, its form
    reqs,           \* web requests served so far
    log,            \* history: id -> send attempts, messages sent, overdue
                    \* writes, failed overdue writes, and the web saves that
                    \* made an overdue or deleted task new or in progress again
    tick,           \* history: the current tick: the tasks due and the statuses
                    \* when it read the table, and its outcome for each task
    tog,            \* history: id -> the status before, and the number of,
                    \* the toggles counted for the task
    post,           \* history: the form of the last create POST noted, the id
                    \* the table would give its task, and how the POST ended
    fsm,            \* the bot's FSM storage: user -> state and data
    inp,            \* history: user -> the texts sent since the user's last
                    \* new-task message, and the tasks created since then
    made,           \* history: id -> the user whose conversation created the task
    sent,           \* messages the bot has received so far
    ret             \* the bot's storage call or delete callback: its position,
                    \* its arguments and what it returned last

webVars == <<web, reqs, tog, post>>

convVars == <<fsm, inp, made, sent, ret>>

vars ==
    <<tasks, nextId, clock, YOUR_CHAT_ID, sweep, faults, log, tick, webVars, convVars>>

----------------------------------------------------------------------------
(* Bounds of the model *)

MaxTasks == 2       \* rows of the table the sweep alone starts from
MaxCreated == 1     \* tasks created in one run of the views or the bot
MaxClock == 2       \* the clock runs over 0..MaxClock
MaxFaults == 1      \* sends or storage writes that fail in one run
MaxWebRequests == 3 \* web requests served in one run
MaxToggles == 4     \* toggles of one task when task_toggle is run alone
MaxMessages == 4
MaxListCreated == 3
MaxListDeleted == 1    \* messages the bot receives when it is run alone

(* The configured recipient channel (any non-zero TELEGRAM_CHAT_ID). *)
CHAT == 1

(* settings.TIME_ZONE as minutes east of UTC. *)
TzOffset == 180

----------------------------------------------------------------------------
(* Datetimes *)

None == [set |-> FALSE, aware |-> FALSE, t |-> 0]

Naive(wall) == [set |-> TRUE, aware |-> FALSE, t |-> wall]

Aware(instant) == [set |-> TRUE, aware |-> TRUE, t |-> instant]

is_naive(d) == ~d.aware

(* timezone.make_aware: the naive reading is taken in the local zone. *)
make_aware(d) == Aware(d.t - TzOffset)

(* django.utils.timezone.localtime: the wall-clock reading of an aware value. *)
localtime(d) == d.t + TzOffset

now == Aware(clock)

----------------------------------------------------------------------------
(* datetime.strptime *)

Digits == {"0", "1", "2", "3", "4", "5", "6", "7", "8", "9"}

DigitValue(c) ==
    CASE c = "0" -> 0 [] c = "1" -> 1 [] c = "2" -> 2 [] c = "3" -> 3
      [] c = "4" -> 4 [] c = "5" -> 5 [] c = "6" -> 6 [] c = "7" -> 7
      [] c = "8" -> 8 [] c = "9" -> 9

(* s[a..b], empty when the range leaves the text. *)
Sub(s, a, b) == IF 1 <= a /\ a <= b /\ b <= Len(s) THEN SubSeq(s, a, b) ELSE ""

Char(s, i) == Sub(s, i, i)

AllDigits(s) == \A i \in 1..Len(s) : Char(s, i) \in Digits

RECURSIVE Number(_)
Number(s) ==
    IF Len(s) = 0 THEN 0
    ELSE 10 * Number(SubSeq(s, 1, Len(s) - 1)) + DigitValue(Char(s, Len(s)))

(* The text a directive matches: %d and %m take one or two digits and no
   zero, %H and %M one or two digits, %Y four digits. *)
MatchesField(s, lo, hi) ==
    /\ Len(s) \in 1..2
    /\ AllDigits(s)
    /\ Number(s) \in lo..hi

MatchesYear(s) == Len(s) = 4 /\ AllDigits(s)

IsLeap(y) == (y % 4 = 0 /\ y % 100 # 0) \/ y % 400 = 0

DaysInMonth(y, m) ==
    IF m = 2 THEN (IF IsLeap(y) THEN 29 ELSE 28)
    ELSE IF m \in {4, 6, 9, 11} THEN 30 ELSE 31

RECURSIVE DaysBeforeMonth(_, _)
DaysBeforeMonth(y, m) ==
    IF m = 1 THEN 0 ELSE DaysBeforeMonth(y, m - 1) + DaysInMonth(y, m - 1)

(* date.toordinal *)
Ordinal(y, m, d) ==
    365 * (y - 1) + ((y - 1) \div 4) - ((y - 1) \div 100) + ((y - 1) \div 400)
        + DaysBeforeMonth(y, m) + d

(* A variant that takes every day up to 31 in every month. *)
ValidDateAnyMonth(y, m, d) == y >= 1 /\ d <= 31

(* The naive datetime of the fields, in minutes since 01.01.2026 00:00; the
   datetime constructor refuses a year 0 and a day the month does not have. *)
ValidDate(y, m, d) == y >= 1 /\ d <= DaysInMonth(y, m)

WallMinutes(y, m, d, H, M) ==
    (Ordinal(y, m, d) - Ordinal(2026, 1, 1)) * 1440 + H * 60 + M

ValueError == [ok |-> FALSE, value |-> None]

Parsed(y, m, d, H, M) ==
    IF ValidDate(Number(y), Number(m), Number(d))
    THEN [ok |-> TRUE,
          value |-> Naive(WallMinutes(Number(y), Number(m), Number(d),
                                      Number(H), Number(M)))]
    ELSE ValueError

(* The ways to cut text s into fields of the given lengths, the separators
   between them being those of the format. *)
FieldLengths == (1..2) \X (1..2) \X (1..2) \X (1..2)

(* strptime(text, "%d.%m.%Y %H:%M"); the blank of the format matches one or
   more blanks. *)
strptime_dmY_HM(s) ==
    LET cuts == {c \in FieldLengths :
                  LET ld == c[1]
                      lm == c[2]
                      lH == c[3]
                      lM == c[4]
                      lw == Len(s) - (ld + 1 + lm + 1 + 4 + lH + 1 + lM)
                      pm == ld + 2
                      pY == pm + lm + 1
                      pH == pY + 4 + lw
                      pM == pH + lH + 1
                  IN  /\ lw >= 1
                      /\ MatchesField(Sub(s, 1, ld), 1, 31)
                      /\ Char(s, ld + 1) = "."
                      /\ MatchesField(Sub(s, pm, pm + lm - 1), 1, 12)
                      /\ Char(s, pm + lm) = "."
                      /\ MatchesYear(Sub(s, pY, pY + 3))
                      /\ \A i \in (pY + 4)..(pH - 1) : Char(s, i) = " "
                      /\ MatchesField(Sub(s, pH, pH + lH - 1), 0, 23)
                      /\ Char(s, pH + lH) = ":"
                      /\ MatchesField(Sub(s, pM, pM + lM - 1), 0, 59)
                      /\ pM + lM - 1 = Len(s)}
    IN  IF cuts = {} THEN ValueError
        ELSE LET c == CHOOSE c \in cuts : TRUE
                 ld == c[1]
                 lm == c[2]
                 lH == c[3]
                 lM == c[4]
                 lw == Len(s) - (ld + 1 + lm + 1 + 4 + lH + 1 + lM)
                 pm == ld + 2
                 pY == pm + lm + 1
                 pH == pY + 4 + lw
                 pM == pH + lH + 1
             IN  Parsed(Sub(s, pY, pY + 3), Sub(s, pm, pm + lm - 1),
                        Sub(s, 1, ld), Sub(s, pH, pH + lH - 1),
                        Sub(s, pM, pM + lM - 1))

(* strptime(text, "%Y-%m-%dT%H:%M") *)
strptime_Ymd_HM(s) ==
    LET cuts == {c \in FieldLengths :
                  LET lm == c[1]
                      ld == c[2]
                      lH == c[3]
                      lM == c[4]
                      pm == 6
                      pd == pm + lm + 1
                      pH == pd + ld + 1
                      pM == pH + lH + 1
                  IN  /\ MatchesYear(Sub(s, 1, 4))
                      /\ Char(s, 5) = "-"
                      /\ MatchesField(Sub(s, pm, pm + lm - 1), 1, 12)
                      /\ Char(s, pm + lm) = "-"
                      /\ MatchesField(Sub(s, pd, pd + ld - 1), 1, 31)
                      /\ Char(s, pd + ld) = "T"
                      /\ MatchesField(Sub(s, pH, pH + lH - 1), 0, 23)
                      /\ Char(s, pH + lH) = ":"
                      /\ MatchesField(Sub(s, pM, pM + lM - 1), 0, 59)
                      /\ pM + lM - 1 = Len(s)}
    IN  IF cuts = {} THEN ValueError
        ELSE LET c == CHOOSE c \in cuts : TRUE
                 lm == c[1]
                 ld == c[2]
                 lH == c[3]
                 lM == c[4]
                 pm == 6
                 pd == pm + lm + 1
                 pH == pd + ld + 1
                 pM == pH + lH + 1
             IN  Parsed(Sub(s, 1, 4), Sub(s, pm, pm + lm - 1),
                        Sub(s, pd, pd + ld - 1), Sub(s, pH, pH + lH - 1),
                        Sub(s, pM, pM + lM - 1))

----------------------------------------------------------------------------
(* The Task model *)

STATUS_CHOICES == {"new", "in_progress", "done", "overdue"}

Ids == 1..MaxTasks

Exists(id) == id \in DOMAIN tasks

(* A variant of save that stores due_date as it is given. *)
NormalizeDueNever(d) == d

(* Task.save's normalisation of due_date. *)
NormalizeDue(d) == IF d.set /\ is_naive(d) THEN make_aware(d) ELSE d

(* A variant of save that writes nothing. *)
Task_save_nothing(id, obj) == tasks

(* Task.save: UPDATE of every column of row id; when no such row exists the
   ORM INSERTs the object under its id, and created_at (auto_now_add) is set
   anew. *)
Task_save(id, obj) ==
    LET row == [obj EXCEPT !.due_date = NormalizeDue(obj.due_date)] IN
    IF Exists(id)
    THEN [tasks EXCEPT ![id] = row]
    ELSE [i \in DOMAIN tasks \cup {id} |->
            IF i = id THEN [row EXCEPT !.created_at = clock] ELSE tasks[i]]

(* Task.objects.create: one INSERT under the next id; created_at is the time
   of the INSERT (auto_now_add). *)
Task_create(title, description, due_date, status) ==
    [i \in DOMAIN tasks \cup {nextId} |->
        IF i = nextId
        THEN [title |-> title, description |-> description, status |-> status,
              created_at |-> clock, due_date |-> NormalizeDue(due_date)]
        ELSE tasks[i]]

(* Model.delete: DELETE of row id, if it is there. *)
(* A variant of delete that removes no row. *)
Task_delete_nothing(id) == tasks

Task_delete(id) == [i \in DOMAIN tasks \ {id} |-> tasks[i]]

----------------------------------------------------------------------------
(* The deadline sweep *)

Idle == [pc |-> "idle", tasks |-> <<>>, now |-> None, i |-> 0, obj |-> <<>>]

(* A variant whose filter leaves out the tasks in progress. *)
PendingIdsNewOnly ==
    {id \in DOMAIN tasks : tasks[id].due_date.set /\ tasks[id].status = "new"}

(* The rows the filter of get_pending_tasks_with_deadline selects. *)
PendingIds ==
    {id \in DOMAIN tasks :
        tasks[id].due_date.set /\ tasks[id].status \in {"new", "in_progress"}}

(* The orders Meta.ordering = ['-created_at'] allows for a set of rows. *)
Orderings(S) ==
    {s \in [1..Cardinality(S) -> S] :
        /\ \A i, j \in DOMAIN s : i # j => s[i] # s[j]
        /\ \A i, j \in DOMAIN s :
              i < j => tasks[s[i]].created_at >= tasks[s[j]].created_at}

get_pending_tasks_with_deadline ==
    {[i \in DOMAIN s |-> [id |-> s[i], row |-> tasks[s[i]]]] : s \in Orderings(PendingIds)}

(* A variant of the condition without the comparison of the times. *)
IsDueIgnoringTime(task, t) ==
    task.due_date.set /\ task.status \notin {"done", "overdue"}

(* The condition of check_deadlines' loop body (bot.py:169). *)
IsDue(task, t) ==
    /\ task.due_date.set
    /\ t.t >= task.due_date.t
    /\ task.status \notin {"done", "overdue"}

(* A variant that sends whatever the chat id is. *)
HasChatAlways == TRUE

(* The test of the chat id before the send (bot.py:183). *)
HasChat == YOUR_CHAT_ID # 0

Current == sweep.tasks[sweep.i]

(* The loop goes on to its next task, or the tick ends. *)
Advance ==
    IF sweep.i < Len(sweep.tasks)
    THEN [sweep EXCEPT !.pc = "loop", !.i = sweep.i + 1, !.obj = <<>>]
    ELSE Idle

Outcome(id, what) == [tick EXCEPT !.out[id] = what]

(* A variant in which only the outer handler (bot.py:191) catches the
   exception, which ends the tick. *)
OnSendErrorAbort == Idle

(* A variant that goes on to mark_task_overdue after a failed send. *)
OnSendErrorMark == [sweep EXCEPT !.pc = "mark"]

(* The handler around the send logs the exception and the loop goes on
   (bot.py:188-189). *)
OnSendError == Advance

(* A variant that forgets the status assignment. *)
MarkedUnchanged(obj) == obj

(* mark_task_overdue's change to the row it has read (bot.py:152). *)
Marked(obj) == [obj EXCEPT !.status = "overdue"]

NoOutcome == [id \in Ids |-> "none"]

NoLog ==
    [id \in Ids |-> [attempts |-> 0, sent |-> 0, marks |-> 0, werr |-> 0,
                     reopen |-> 0]]

(* The sweep's selection as the design states it: the due date is set and
   has passed, and the status is new or in progress. *)
Qualifies(row, instant) ==
    /\ row.due_date.set
    /\ row.due_date.aware
    /\ row.due_date.t <= instant
    /\ row.status \in {"new", "in_progress"}

(* What a tick that starts now finds: the tasks that qualify, and every
   task's status. *)
DueNow == {id \in DOMAIN tasks : Qualifies(tasks[id], clock)}

StatusNow == [id \in Ids |-> IF Exists(id) THEN tasks[id].status ELSE "none"]

NoTick == [ran |-> FALSE, due |-> {}, status |-> StatusNow, out |-> NoOutcome]

(* check_deadlines reads the pending tasks and the time (bot.py:165-166). *)
SweepStart ==
    /\ sweep.pc = "idle"
    /\ \E snapshot \in get_pending_tasks_with_deadline :
          sweep' = IF Len(snapshot) = 0
                   THEN Idle
                   ELSE [pc |-> "loop", tasks |-> snapshot, now |-> now,
                         i |-> 1, obj |-> <<>>]
    /\ tick' = [ran |-> TRUE, due |-> DueNow, status |-> StatusNow, out |-> NoOutcome]
    /\ UNCHANGED <<tasks, nextId, clock, YOUR_CHAT_ID, faults, log, webVars, convVars>>

(* A task of the snapshot that is not due, or no channel is configured. *)
SweepSkip ==
    /\ sweep.pc = "loop"
    /\ ~(IsDue(Current.row, sweep.now) /\ HasChat)
    /\ sweep' = Advance
    /\ UNCHANGED <<tasks, nextId, clock, YOUR_CHAT_ID, faults, log, tick, webVars, convVars>>

(* bot.send_message succeeds; mark_task_overdue is called next. *)
SweepSendOk ==
    /\ sweep.pc = "loop"
    /\ IsDue(Current.row, sweep.now) /\ HasChat
    /\ log' = [log EXCEPT ![Current.id].attempts = @ + 1,
                          ![Current.id].sent = @ + 1]
    /\ tick' = Outcome(Current.id, "sent")
    /\ sweep' = [sweep EXCEPT !.pc = "mark"]
    /\ UNCHANGED <<tasks, nextId, clock, YOUR_CHAT_ID, faults, webVars, convVars>>

(* bot.send_message raises; the exception is logged (bot.py:188-189). *)
SweepSendFail ==
    /\ sweep.pc = "loop"
    /\ IsDue(Current.row, sweep.now) /\ HasChat
    /\ faults < MaxFaults
    /\ faults' = faults + 1
    /\ log' = [log EXCEPT ![Current.id].attempts = @ + 1]
    /\ tick' = Outcome(Current.id, "send_failed")
    /\ sweep' = OnSendError
    /\ UNCHANGED <<tasks, nextId, clock, YOUR_CHAT_ID, webVars, convVars>>

(* mark_task_overdue: Task.objects.get(id=task_id). *)
MarkGet ==
    /\ sweep.pc = "mark"
    /\ IF Exists(Current.id)
       THEN /\ sweep' = [sweep EXCEPT !.pc = "save", !.obj = tasks[Current.id]]
            /\ tick' = tick
       ELSE /\ sweep' = Advance
            /\ tick' = Outcome(Current.id, "not_found")
    /\ UNCHANGED <<tasks, nextId, clock, YOUR_CHAT_ID, faults, log, webVars, convVars>>

(* mark_task_overdue: task.status = 'overdue'; task.save(). *)
MarkSave ==
    /\ sweep.pc = "save"
    /\ tasks' = Task_save(Current.id, Marked(sweep.obj))
    /\ log' = [log EXCEPT ![Current.id].marks = @ + 1]
    /\ tick' = Outcome(Current.id, "marked")
    /\ sweep' = Advance
    /\ UNCHANGED <<nextId, clock, YOUR_CHAT_ID, faults, webVars, convVars>>

(* The storage call of mark_task_overdue raises; the exception is caught by
   the handler around the send (bot.py:188-189) and the loop goes on. *)
MarkFail ==
    /\ sweep.pc \in {"mark", "save"}
    /\ faults < MaxFaults
    /\ faults' = faults + 1
    /\ log' = [log EXCEPT ![Current.id].werr = @ + 1]
    /\ tick' = Outcome(Current.id, "write_failed")
    /\ sweep' = Advance
    /\ UNCHANGED <<tasks, nextId, clock, YOUR_CHAT_ID, webVars, convVars>>

(* Time passes. *)
Tick ==
    /\ clock < MaxClock
    /\ clock' = clock + 1
    /\ UNCHANGED <<tasks, nextId, YOUR_CHAT_ID, sweep, faults, log, tick, webVars, convVars>>

check_deadlines ==
    \/ SweepStart
    \/ SweepSkip
    \/ SweepSendOk
    \/ SweepSendFail
    \/ MarkGet
    \/ MarkSave
    \/ MarkFail

----------------------------------------------------------------------------
(* The web views.  A view that changes a row reads it (get_object_or_404) and
   writes it back (save, delete) in two storage calls; the bot runs in another
   process and its storage calls may fall between the two. *)

(* The fields of the task form. *)
Fields == {"title", "description", "due_date"}

(* A POST: the fields it carries and their texts. *)
NoForm == [keys |-> {}, title |-> "", description |-> "", due_date |-> ""]

(* request.POST.get(key) of a text that is tested or defaulted: '' stands for
   a missing description (the default given) and for a missing due date (None
   and '' take the same branch). *)
POST_get(form, key) == IF key \in form.keys THEN form[key] ELSE ""

NoPost == [view |-> "none", form |-> NoForm, id |-> 0, status |-> "none"]

NoRequest == [view |-> "none", pk |-> 0, obj |-> <<>>, form |-> NoForm]

(* A variant of the cycle that leaves an overdue task overdue. *)
cycle_status_keep_overdue(status) ==
    IF status = "new" THEN "in_progress"
    ELSE IF status = "in_progress" THEN "done"
    ELSE IF status = "overdue" THEN "overdue"
    ELSE "new"

(* A variant of the cycle with a fourth step through overdue. *)
cycle_status_of_four(status) ==
    IF status = "new" THEN "in_progress"
    ELSE IF status = "in_progress" THEN "done"
    ELSE IF status = "done" THEN "overdue"
    ELSE "new"

(* The status task_toggle assigns (views.py:89-94). *)
cycle_status(status) ==
    IF status = "new" THEN "in_progress"
    ELSE IF status = "in_progress" THEN "done"
    ELSE "new"

(* The due date task_create stores for the form's text (views.py:26-32). *)
CreateDue(text) ==
    IF text = "" THEN None
    ELSE LET r == strptime_Ymd_HM(text) IN
         IF r.ok THEN make_aware(r.value) ELSE None

(* A variant that drops the due date when the text does not parse, as
   task_create does. *)
UpdateDueOrNone(old, text) ==
    IF text = "" THEN None
    ELSE LET r == strptime_Ymd_HM(text) IN
         IF r.ok THEN make_aware(r.value) ELSE None

(* The due date task_update leaves in the object (views.py:54-63). *)
UpdateDue(old, text) ==
    IF text = "" THEN None
    ELSE LET r == strptime_Ymd_HM(text) IN
         IF r.ok THEN make_aware(r.value) ELSE old

(* The texts the due-date field of the web form is given. *)
CreateForms ==
    [keys : {Fields}, title : {"a"}, description : {""},
     due_date : {"", "2026-01-01T03:01"}]

UpdateForms ==
    [keys : {Fields}, title : {"b"}, description : {""}, due_date : {"", "tomorrow"}]

(* The save of a request makes a task that was overdue, or deleted, new or in
   progress. *)
Reopens(pk, status) ==
    /\ status \in {"new", "in_progress"}
    /\ Exists(pk) => tasks[pk].status = "overdue"

NoteSave(pk, status) ==
    IF Reopens(pk, status) THEN [log EXCEPT ![pk].reopen = @ + 1] ELSE log

(* One more request is served, while the run may serve more. *)
Served == reqs < MaxWebRequests /\ reqs' = reqs + 1

(* task_create, POST: Task.objects.create with the model's default status.
   A POST without a title gives title = None, which the NOT NULL column
   refuses: IntegrityError, no row, and the request ends with an error. *)
Create(form) ==
    /\ web.view = "none"
    /\ Served
    /\ nextId <= MaxCreated
    /\ IF "title" \in form.keys
       THEN /\ tasks' = Task_create(form.title, POST_get(form, "description"),
                                    CreateDue(POST_get(form, "due_date")), "new")
            /\ nextId' = nextId + 1
       ELSE UNCHANGED <<tasks, nextId>>
    /\ UNCHANGED <<clock, YOUR_CHAT_ID, sweep, faults, log, tick, web, tog, convVars>>

task_create(form) == Create(form) /\ UNCHANGED post

(* get_object_or_404: a view reads its row; a missing row ends the request
   with a 404. *)
Get(view, pk, form) ==
    /\ web.view = "none"
    /\ Exists(pk)
    /\ web' = [view |-> view, pk |-> pk, obj |-> tasks[pk], form |-> form]
    /\ UNCHANGED <<tasks, nextId, clock, YOUR_CHAT_ID, sweep, faults, log, tick, tog,
                   post, convVars>>

task_toggle_get(pk) == Served /\ Get("toggle", pk, NoForm)

(* task_toggle: the next status of the object read, then task.save(). *)
Toggle ==
    /\ web.view = "toggle"
    /\ tasks' = Task_save(web.pk, [web.obj EXCEPT !.status = cycle_status(@)])
    /\ log' = NoteSave(web.pk, cycle_status(web.obj.status))
    /\ web' = NoRequest
    /\ UNCHANGED <<nextId, clock, YOUR_CHAT_ID, sweep, faults, tick, reqs, post, convVars>>

task_toggle_save == Toggle /\ UNCHANGED tog

task_update_get(pk, form) == Served /\ Get("update", pk, form)

(* task_update, POST: title, description and due date from the form, then
   task.save(); for a POST without a title the save raises IntegrityError
   and writes nothing. *)
task_update_save ==
    /\ web.view = "update"
    /\ IF "title" \in web.form.keys
       THEN /\ tasks' = Task_save(web.pk,
                           [web.obj EXCEPT
                               !.title = web.form.title,
                               !.description = POST_get(web.form, "description"),
                               !.due_date = UpdateDue(@, POST_get(web.form, "due_date"))])
            /\ log' = NoteSave(web.pk, web.obj.status)
       ELSE UNCHANGED <<tasks, log>>
    /\ web' = NoRequest
    /\ UNCHANGED <<nextId, clock, YOUR_CHAT_ID, sweep, faults, tick, reqs, tog, post,
                   convVars>>

task_delete_get(pk) == Served /\ Get("delete", pk, NoForm)

(* task_delete, POST: task.delete(). *)
task_delete_do ==
    /\ web.view = "delete"
    /\ tasks' = Task_delete(web.pk)
    /\ web' = NoRequest
    /\ UNCHANGED <<nextId, clock, YOUR_CHAT_ID, sweep, faults, log, tick, reqs, tog,
                   post, convVars>>

Web ==
    \/ \E form \in CreateForms : task_create(form)
    \/ \E pk \in Ids : task_toggle_get(pk)
    \/ task_toggle_save
    \/ \E pk \in Ids, form \in UpdateForms : task_update_get(pk, form)
    \/ task_update_save
    \/ \E pk \in Ids : task_delete_get(pk)
    \/ task_delete_do

----------------------------------------------------------------------------
(* The bot's conversation that creates a task (bot.py; runbot.py repeats it) *)

(* The command and the texts of the reply keyboards, bot.py:195-214 and the
   filters of the handlers, with the emoji left out and the Russian words in
   Latin letters. *)
START == "/start"
ALL_TASKS == "Vse zadachi"
WEB_INTERFACE == "Veb-interfeys"
NEW_TASK == "Novaya zadacha"
REMINDERS == "Napominaniya"
CANCEL == "Otmena"
SKIP == "Propustit"

Keywords == {START, ALL_TASKS, WEB_INTERFACE, NEW_TASK, REMINDERS, CANCEL, SKIP}

(* Texts a user types: a title, a date in the bot's format, a date that does
   not exist. *)
PlainTexts == {"Buy milk", "25.01.2026 14:30", "31.02.2026 10:00"}

Texts == Keywords \cup PlainTexts

Users == {1, 2}

(* FSMContext: the state of class CreateTask and the data dictionary. *)
NoData == [keys |-> {}, title |-> "", description |-> "", due_date |-> None]

(* A variant that keeps the value of a key the data already has. *)
update_data_setdefault(data, key, value) ==
    IF key \in data.keys THEN data
    ELSE [data EXCEPT !.keys = @ \cup {key}, ![key] = value]

update_data(data, key, value) ==
    [data EXCEPT !.keys = @ \cup {key}, ![key] = value]

get(data, key, default) == IF key \in data.keys THEN data[key] ELSE default

set_state(ctx, state) == [ctx EXCEPT !.state = state]

clear == [state |-> "none", data |-> NoData]

NoToggles == [id \in Ids |-> [from |-> "none", n |-> 0]]

NoConversations == [u \in Users |-> clear]

(* No storage call made yet. *)
NoCall ==
    [call |-> "none", pc |-> "idle", data |-> "", id |-> 0, given |-> None,
     result |-> "none", outcome |-> "none", list |-> <<>>]

NoInput ==
    [started |-> FALSE, msgs |-> <<>>, made |-> {}, dropped |-> {}, left |-> {}]

NoInputs == [u \in Users |-> NoInput]

(* A variant with one context for all users. *)
StorageKeyShared(u) == 1

(* The key under which the FSM storage keeps the context of the user whose
   message a handler receives as its state argument. *)
StorageKey(u) == u

(* The dispatcher hands a message to the first handler, in the order the
   handlers are registered, whose filter the message passes. *)
Handler(u, text) ==
    IF text = START THEN "cmd_start"
    ELSE IF text = ALL_TASKS THEN "show_all_tasks"
    ELSE IF text = WEB_INTERFACE THEN "show_web_interface"
    ELSE IF text = NEW_TASK THEN "create_task_start"
    ELSE IF fsm[StorageKey(u)].state = "title" THEN "process_title"
    ELSE IF fsm[StorageKey(u)].state = "description" THEN "process_description"
    ELSE IF fsm[StorageKey(u)].state = "due_date" THEN "process_due_date"
    ELSE IF text = REMINDERS THEN "show_reminders"
    ELSE IF text = CANCEL THEN "cancel"
    ELSE "unhandled"

(* The title and the description in the user's data. *)
Accumulated(u) ==
    {fsm[u].data[key] : key \in fsm[u].data.keys \cap {"title", "description"}}

(* The bot receives a message; ids are the tasks its handler creates. The
   history keeps the texts since the user's last new-task message, the tasks
   made since then, the data the user's cancels found, and the data the
   user's new-task messages found. *)
Receive(u, text, ids) ==
    /\ sent < MaxMessages
    /\ sent' = sent + 1
    /\ UNCHANGED ret
    /\ inp' = [inp EXCEPT ![u] =
                 IF text = NEW_TASK
                 THEN [@ EXCEPT !.started = TRUE, !.msgs = <<>>, !.made = {},
                                !.left = @ \cup Accumulated(u)]
                 ELSE IF @.started
                 THEN [@ EXCEPT !.msgs = Append(@, text), !.made = @ \cup ids,
                                !.dropped = IF text = CANCEL
                                            THEN @ \cup Accumulated(u)
                                            ELSE @]
                 ELSE @]

(* A handler that answers and leaves the FSM and the table alone. *)
Answer(u, text) ==
    /\ Receive(u, text, {})
    /\ UNCHANGED <<tasks, nextId, clock, YOUR_CHAT_ID, sweep, faults, log, tick,
                   webVars, fsm, made>>

(* A handler that changes the user's FSM context only. *)
Context(u, text, ctx) ==
    /\ Receive(u, text, {})
    /\ fsm' = [fsm EXCEPT ![StorageKey(u)] = ctx]
    /\ UNCHANGED <<tasks, nextId, clock, YOUR_CHAT_ID, sweep, faults, log, tick,
                   webVars, made>>

(* A variant of the cancel branches that resets the state and keeps the data. *)
on_cancel_keep_data(ctx) == set_state(ctx, "none")

(* What the cancel branches of the handlers do to the context: state.clear(). *)
on_cancel(ctx) == clear

cmd_start(u, text) ==
    /\ Handler(u, text) = "cmd_start"
    /\ Answer(u, text)

show_all_tasks(u, text) ==
    /\ Handler(u, text) = "show_all_tasks"
    /\ Answer(u, text)

show_web_interface(u, text) ==
    /\ Handler(u, text) = "show_web_interface"
    /\ Answer(u, text)

show_reminders(u, text) ==
    /\ Handler(u, text) = "show_reminders"
    /\ Answer(u, text)

(* No filter passes: the update is dropped. *)
unhandled(u, text) ==
    /\ Handler(u, text) = "unhandled"
    /\ Answer(u, text)

create_task_start(u, text) ==
    /\ Handler(u, text) = "create_task_start"
    /\ Context(u, text, set_state(fsm[StorageKey(u)], "title"))

process_title(u, text) ==
    /\ Handler(u, text) = "process_title"
    /\ Context(u, text,
               IF text = CANCEL
               THEN on_cancel(fsm[StorageKey(u)])
               ELSE [state |-> "description",
                     data |-> update_data(fsm[StorageKey(u)].data, "title", text)])

(* The description kept for a text: the mapping of the skip keyword. *)
description_verbatim(text) == text

description_of(text) == IF text = SKIP THEN "" ELSE text

process_description(u, text) ==
    /\ Handler(u, text) = "process_description"
    /\ Context(u, text,
               IF text = CANCEL
               THEN on_cancel(fsm[StorageKey(u)])
               ELSE [state |-> "due_date",
                     data |-> update_data(fsm[StorageKey(u)].data, "description",
                                          description_of(text))])

(* The due date of a text: none for the skip keyword, else the text parsed
   and made aware; ok is FALSE where strptime raises ValueError. *)
due_date_of(text) ==
    IF text = SKIP
    THEN [ok |-> TRUE, value |-> None]
    ELSE IF strptime_dmY_HM(text).ok
    THEN [ok |-> TRUE, value |-> make_aware(strptime_dmY_HM(text).value)]
    ELSE ValueError

(* The same for every text a user of the model sends, computed once. *)
DueDateOf == [text \in Texts |-> due_date_of(text)]

(* A variant of create_task that makes the task in progress. *)
create_task_in_progress(title, description, due_date) ==
    Task_create(title, description, due_date, "in_progress")

(* create_task of bot.py: Task.objects.create with status 'new'. *)
create_task(title, description, due_date) ==
    Task_create(title, description, due_date, "new")

(* process_due_date past the keyword and format checks: the due date joins
   the data, the task is created from the data and the context is cleared; a
   missing title raises KeyError after update_data. *)
Commit(u, text, due_date) ==
    LET data == update_data(fsm[StorageKey(u)].data, "due_date", due_date)
    IN  IF "title" \in data.keys
        THEN /\ nextId \in Ids
             /\ Receive(u, text, {nextId})
             /\ tasks' = create_task(data.title, get(data, "description", ""),
                                     get(data, "due_date", None))
             /\ nextId' = nextId + 1
             /\ made' = (nextId :> u) @@ made
             /\ fsm' = [fsm EXCEPT ![StorageKey(u)] = clear]
        ELSE /\ Receive(u, text, {})
             /\ fsm' = [fsm EXCEPT ![StorageKey(u)].data = data]
             /\ UNCHANGED <<tasks, nextId, made>>

process_due_date(u, text) ==
    /\ Handler(u, text) = "process_due_date"
    /\ IF text = CANCEL
       THEN /\ Receive(u, text, {})
            /\ fsm' = [fsm EXCEPT ![StorageKey(u)] = on_cancel(fsm[StorageKey(u)])]
            /\ UNCHANGED <<tasks, nextId, made>>
       ELSE IF DueDateOf[text].ok
       THEN Commit(u, text, DueDateOf[text].value)
       ELSE /\ Receive(u, text, {})
            /\ UNCHANGED <<tasks, nextId, made, fsm>>
    /\ UNCHANGED <<clock, YOUR_CHAT_ID, sweep, faults, log, tick, webVars>>

cancel(u, text) ==
    /\ Handler(u, text) = "cancel"
    /\ Context(u, text, on_cancel(fsm[StorageKey(u)]))

Message(u, text) ==
    \/ cmd_start(u, text)
    \/ show_all_tasks(u, text)
    \/ show_web_interface(u, text)
    \/ create_task_start(u, text)
    \/ process_title(u, text)
    \/ process_description(u, text)
    \/ process_due_date(u, text)
    \/ show_reminders(u, text)
    \/ cancel(u, text)
    \/ unhandled(u, text)

(* The bot's conversations alone, over an empty table. A user begins with no
   conversation, or in one left waiting for the description or for the due
   date, or after a conversation that ended with cancel; the history is that
   of the messages that lead there. *)
LeftAtDescription ==
    [state |-> "description", data |-> update_data(NoData, "title", "Old")]

LeftWaiting ==
    [state |-> "due_date",
     data |-> update_data(update_data(NoData, "title", "Old"), "description", "Old")]

LeftInput(msgs, dropped) ==
    [started |-> TRUE, msgs |-> msgs, made |-> {}, dropped |-> dropped, left |-> {}]

ConvStarts ==
    {[ctx |-> clear, inp |-> NoInput],
     [ctx |-> LeftWaiting, inp |-> LeftInput(<<"Old", "Old">>, {})]}

SoloStarts ==
    ConvStarts \cup
    {[ctx |-> LeftAtDescription, inp |-> LeftInput(<<"Old">>, {})],
     [ctx |-> clear, inp |-> LeftInput(<<"Old", "Old", CANCEL>>, {"Old"})]}

(* The state of the table and of everything but the conversations. *)
InitBot ==
    /\ tasks = <<>>
    /\ nextId = 1
    /\ clock = 0
    /\ YOUR_CHAT_ID = CHAT
    /\ sweep = Idle
    /\ faults = 0
    /\ web = NoRequest
    /\ reqs = 0
    /\ log = NoLog
    /\ tick = NoTick
    /\ tog = NoToggles
    /\ post = NoPost
    /\ made = <<>>
    /\ sent = 0
    /\ ret = NoCall

InitConv ==
    /\ InitBot
    /\ \E start \in [Users -> ConvStarts] :
          /\ fsm = [u \in Users |-> start[u].ctx]
          /\ inp = [u \in Users |-> start[u].inp]

NextConv == \E u \in Users, text \in Texts : Message(u, text)

SpecConv == InitConv /\ [][NextConv]_vars

(* The conversations of one user, the other silent, from every start. *)
InitSolo ==
    /\ InitBot
    /\ \E start \in SoloStarts :
          /\ fsm = [u \in Users |-> IF u = 1 THEN start.ctx ELSE clear]
          /\ inp = [u \in Users |-> IF u = 1 THEN start.inp ELSE NoInput]

NextSolo == \E text \in Texts : Message(1, text)

SpecSolo == InitSolo /\ [][NextSolo]_vars

----------------------------------------------------------------------------
(* The bot's storage functions and its delete callback *)

PREFIX == "delete_"

(* str.replace("delete_", ""): every occurrence is taken out, left to right. *)
RECURSIVE replace_prefix(_)
replace_prefix(s) ==
    IF Len(s) = 0 THEN ""
    ELSE IF Sub(s, 1, Len(PREFIX)) = PREFIX
    THEN replace_prefix(Sub(s, Len(PREFIX) + 1, Len(s)))
    ELSE Char(s, 1) \o replace_prefix(Sub(s, 2, Len(s)))

(* int() of a text of digits and letters: ValueError unless the text is one
   or more digits. *)
int(s) ==
    IF Len(s) > 0 /\ AllDigits(s)
    THEN [ok |-> TRUE, value |-> Number(s)]
    ELSE [ok |-> FALSE, value |-> 0]

(* The payloads of delete callbacks: those of the buttons go_to_delete makes
   for the ids of the table, and payloads no button makes. *)
Payloads == {"delete_1", "delete_2", "delete_abc", "delete_"}

(* delete_task_callback up to the result of get_task_by_id: int() raises
   ValueError, which nothing catches; a task not found is answered with
   "not found"; for a task found the handler goes on to delete_task_by_id. *)
delete_task_callback(data) ==
    /\ ret.pc = "idle"
    /\ LET task_id == int(replace_prefix(data)) IN
       ret' = IF ~task_id.ok
              THEN [NoCall EXCEPT !.call = "delete_task_callback", !.data = data,
                                  !.outcome = "raised"]
              ELSE IF Exists(task_id.value)
              THEN [NoCall EXCEPT !.call = "delete_task_callback", !.data = data,
                                  !.id = task_id.value, !.pc = "found"]
              ELSE [NoCall EXCEPT !.call = "delete_task_callback", !.data = data,
                                  !.id = task_id.value, !.outcome = "not_found"]
    /\ UNCHANGED <<tasks, nextId, clock, YOUR_CHAT_ID, sweep, faults, log, tick,
                   webVars, fsm, inp, made, sent>>

(* delete_task_by_id, its Task.objects.get: DoesNotExist gives False, which
   the callback does not look at. *)
delete_task_by_id_get ==
    /\ ret.pc = "found"
    /\ ret' = IF Exists(ret.id)
              THEN [ret EXCEPT !.pc = "delete"]
              ELSE [ret EXCEPT !.pc = "idle", !.result = "False",
                               !.outcome = "deleted"]
    /\ UNCHANGED <<tasks, nextId, clock, YOUR_CHAT_ID, sweep, faults, log, tick,
                   webVars, fsm, inp, made, sent>>

(* delete_task_by_id, the delete() of the row it has read, and True. *)
delete_task_by_id_delete ==
    /\ ret.pc = "delete"
    /\ tasks' = Task_delete(ret.id)
    /\ ret' = [ret EXCEPT !.pc = "idle", !.result = "True", !.outcome = "deleted"]
    /\ UNCHANGED <<nextId, clock, YOUR_CHAT_ID, sweep, faults, log, tick,
                   webVars, fsm, inp, made, sent>>

(* The due dates create_task is called with. *)
GivenDues == {None, Naive(TzOffset + 1), Aware(1)}

(* A call of create_task with a title, a description and a due date. *)
create_task_call(due_date) ==
    /\ ret.pc = "idle"
    /\ nextId \in Ids
    /\ tasks' = create_task("t", "", due_date)
    /\ nextId' = nextId + 1
    /\ ret' = [NoCall EXCEPT !.call = "create_task", !.id = nextId,
                             !.given = due_date, !.result = "created"]
    /\ UNCHANGED <<clock, YOUR_CHAT_ID, sweep, faults, log, tick,
                   webVars, fsm, inp, made, sent>>

----------------------------------------------------------------------------
(* The web views and the bot's sweep over one table, from an empty table *)

Init ==
    /\ tasks = <<>>
    /\ nextId = 1
    /\ clock = 0
    /\ YOUR_CHAT_ID \in {0, CHAT}
    /\ sweep = Idle
    /\ faults = 0
    /\ web = NoRequest
    /\ reqs = 0
    /\ log = NoLog
    /\ tick = NoTick
    /\ tog = NoToggles
    /\ post = NoPost
    /\ fsm = NoConversations
    /\ inp = NoInputs
    /\ made = <<>>
    /\ sent = 0
    /\ ret = NoCall

Next == Web \/ check_deadlines \/ Tick

Spec == Init /\ [][Next]_vars

(* The same with every handler's storage calls kept together: a view that has
   read its row writes it before anything else happens, and so does
   mark_task_overdue. *)
SerialView == web.view # "none" /\ Web

SerialMark == web.view = "none" /\ sweep.pc \in {"mark", "save"} /\ check_deadlines

SerialStep == web.view = "none" /\ sweep.pc \notin {"mark", "save"} /\ Next

NextSerial == SerialView \/ SerialMark \/ SerialStep

SpecSerial == Init /\ [][NextSerial]_vars

----------------------------------------------------------------------------
(* The bot's storage calls beside the web views, over one table *)

InitStore ==
    /\ InitBot
    /\ fsm = NoConversations
    /\ inp = NoInputs

Bot ==
    \/ \E data \in Payloads : delete_task_callback(data)
    \/ delete_task_by_id_get
    \/ delete_task_by_id_delete
    \/ \E due_date \in GivenDues : create_task_call(due_date)

NextStore == Web \/ Bot

SpecStore == InitStore /\ [][NextStore]_vars

(* Every path that writes a row: the creates of the bot and of the web, the
   web's edit, toggle and delete, and the sweep's overdue mark; MaxCreated
   rows are created in all. *)
create_task_once(due_date) == nextId <= MaxCreated /\ create_task_call(due_date)

NextWrites ==
    \/ Web
    \/ \E due_date \in GivenDues : create_task_once(due_date)
    \/ check_deadlines
    \/ Tick

SpecWrites == InitStore /\ [][NextWrites]_vars

----------------------------------------------------------------------------
(* The two listings, over a table around the bot's limit of rows *)

LIST_LIMIT == 50

(* A variant of the ordering that puts the oldest row first. *)
RECURSIVE objects_all_oldest_first(_)
objects_all_oldest_first(S) ==
    IF S = {} THEN <<>>
    ELSE LET id == CHOOSE i \in S : TRUE
             rest == objects_all_oldest_first(S \ {id})
             before == Cardinality({i \in S : tasks[i].created_at < tasks[id].created_at})
         IN  SubSeq(rest, 1, before) \o <<id>> \o SubSeq(rest, before + 1, Len(rest))

(* Task.objects.all() under Meta.ordering = ['-created_at'], for rows whose
   created_at differ: the ids of the rows, the newest first. Each id is put
   behind the ids of the rows created after its row. *)
RECURSIVE objects_all(_)
objects_all(S) ==
    IF S = {} THEN <<>>
    ELSE LET id == CHOOSE i \in S : TRUE
             rest == objects_all(S \ {id})
             before == Cardinality({i \in S : tasks[i].created_at > tasks[id].created_at})
         IN  SubSeq(rest, 1, before) \o <<id>> \o SubSeq(rest, before + 1, Len(rest))

(* The slice [:n] of a query. *)
Slice(s, n) == SubSeq(s, 1, IF Len(s) < n THEN Len(s) ELSE n)

(* get_all_tasks: list(Task.objects.all()[:50]). *)
get_all_tasks ==
    /\ ret' = [NoCall EXCEPT !.call = "get_all_tasks",
                             !.list = Slice(objects_all(DOMAIN tasks), LIST_LIMIT)]
    /\ UNCHANGED <<tasks, nextId, clock, YOUR_CHAT_ID, sweep, faults, log, tick,
                   webVars, fsm, inp, made, sent>>

(* task_list: Task.objects.all(), rendered whole. *)
task_list ==
    /\ ret' = [NoCall EXCEPT !.call = "task_list",
                             !.list = objects_all(DOMAIN tasks)]
    /\ UNCHANGED <<tasks, nextId, clock, YOUR_CHAT_ID, sweep, faults, log, tick,
                   webVars, fsm, inp, made, sent>>

(* The rows the table starts with: none, or one less than the limit, created
   one after another. *)
ListStarts == {0, LIST_LIMIT - 1}

(* The ids a table of these listings can hold. *)
ListIds == 1..(LIST_LIMIT - 1 + MaxListCreated)

(* A create, of the bot or of the web: auto_now_add gives each INSERT its own
   instant, so the clock moves with it. At most MaxListCreated rows are
   created on top of those the table started with. *)
create_row ==
    /\ \E n \in ListStarts : nextId - 1 - n \in 0..(MaxListCreated - 1)
    /\ tasks' = create_task("t", "", None)
    /\ nextId' = nextId + 1
    /\ clock' = clock + 1
    /\ ret' = NoCall
    /\ UNCHANGED <<YOUR_CHAT_ID, sweep, faults, log, tick,
                   webVars, fsm, inp, made, sent>>

(* A delete, of the bot or of the web. *)
delete_row(id) ==
    /\ Exists(id)
    /\ nextId - 1 - Cardinality(DOMAIN tasks) < MaxListDeleted
    /\ tasks' = Task_delete(id)
    /\ ret' = NoCall
    /\ UNCHANGED <<nextId, clock, YOUR_CHAT_ID, sweep, faults, log, tick,
                   webVars, fsm, inp, made, sent>>

InitList ==
    /\ \E n \in ListStarts :
          /\ tasks = [i \in 1..n |->
                        [title |-> "t", description |-> "", status |-> "new",
                         created_at |-> i - 1, due_date |-> None]]
          /\ nextId = n + 1
          /\ clock = n
    /\ YOUR_CHAT_ID = CHAT
    /\ sweep = Idle
    /\ faults = 0
    /\ web = NoRequest
    /\ reqs = 0
    /\ log = NoLog
    /\ tick = NoTick
    /\ tog = NoToggles
    /\ post = NoPost
    /\ fsm = NoConversations
    /\ inp = NoInputs
    /\ made = <<>>
    /\ sent = 0
    /\ ret = NoCall

NextList ==
    \/ create_row
    \/ \E id \in ListIds : delete_row(id)
    \/ get_all_tasks
    \/ task_list

SpecList == InitList /\ [][NextList]_vars

----------------------------------------------------------------------------
(* The create and edit forms of the web, posted with any of a set of
   texts, from an empty table *)

(* The texts given as due date: none, two that strptime takes (one of them
   without the zeros), a later minute, a word, a day that no month has, and
   the format of the bot. *)
PostedDues ==
    {"", "2026-01-01T03:01", "2026-1-1T3:1", "2026-01-01T03:02", "tomorrow",
     "2026-02-31T10:00", "01.01.2026 03:01"}

PostedCreates ==
    [keys : {Fields, Fields \ {"title"}}, title : {"a", ""}, description : {""},
     due_date : PostedDues]

PostedUpdates ==
    [keys : {Fields, Fields \ {"title"}}, title : {"b"}, description : {""},
     due_date : PostedDues]

(* A create POST, noted with its form and with the id the table gives next. *)
post_create(form) ==
    /\ Create(form)
    /\ post' = [view |-> "create", form |-> form, id |-> nextId,
                status |-> IF "title" \in form.keys THEN "redirect" ELSE "error"]

NextForms ==
    \/ \E form \in PostedCreates : post_create(form)
    \/ \E pk \in Ids, form \in PostedUpdates : task_update_get(pk, form)
    \/ task_update_save

SpecForms == InitStore /\ [][NextForms]_vars

----------------------------------------------------------------------------
(* task_toggle alone, applied again and again to the tasks of a table *)

ToggleRows ==
    [title : {"t"}, description : {""}, status : STATUS_CHOICES,
     created_at : {0}, due_date : {None}]

InitToggle ==
    /\ tasks \in [Ids -> ToggleRows]
    /\ nextId = MaxTasks + 1
    /\ clock = 0
    /\ YOUR_CHAT_ID = CHAT
    /\ sweep = Idle
    /\ faults = 0
    /\ web = NoRequest
    /\ reqs = 0
    /\ log = NoLog
    /\ tick = NoTick
    /\ tog = NoToggles
    /\ post = NoPost
    /\ fsm = NoConversations
    /\ inp = NoInputs
    /\ made = <<>>
    /\ sent = 0
    /\ ret = NoCall

(* A toggle request for a task toggled fewer than MaxToggles times. *)
toggle_get(pk) ==
    /\ tog[pk].n < MaxToggles
    /\ Get("toggle", pk, NoForm)
    /\ UNCHANGED reqs

(* Its save; the history keeps the status before the first toggle and counts
   the toggles. *)
toggle_save ==
    /\ Toggle
    /\ tog' = [tog EXCEPT ![web.pk] =
                  IF @.n = 0
                  THEN [from |-> tasks[web.pk].status, n |-> 1]
                  ELSE [@ EXCEPT !.n = @ + 1]]

NextToggle == (\E pk \in Ids : toggle_get(pk)) \/ toggle_save

SpecToggle == InitToggle /\ [][NextToggle]_vars

----------------------------------------------------------------------------
(* The sweep alone, over a table that already holds tasks *)

DueChoices == {None, Aware(1)}

StoredRows ==
    [title : {"t"}, description : {""}, status : STATUS_CHOICES,
     created_at : {0}, due_date : DueChoices]

InitSweep ==
    /\ tasks \in [Ids -> StoredRows]
    /\ nextId = MaxTasks + 1
    /\ clock = 0
    /\ YOUR_CHAT_ID \in {0, CHAT}
    /\ sweep = Idle
    /\ faults = 0
    /\ web = NoRequest
    /\ reqs = 0
    /\ log = NoLog
    /\ tick = NoTick
    /\ tog = NoToggles
    /\ post = NoPost
    /\ fsm = NoConversations
    /\ inp = NoInputs
    /\ made = <<>>
    /\ sent = 0
    /\ ret = NoCall

NextSweep == check_deadlines \/ Tick

SpecSweep == InitSweep /\ [][NextSweep]_vars

(* The sweep under the scheduler's guarantee that a started job runs on and
   that the interval trigger fires again; a send or a write that fails does so
   at most MaxFaults times. *)
SpecSweepFair ==
    /\ SpecSweep
    /\ WF_vars(SweepStart)
    /\ WF_vars(SweepSkip)
    /\ WF_vars(SweepSendOk)
    /\ WF_vars(MarkGet)
    /\ WF_vars(MarkSave)

----------------------------------------------------------------------------
(* The bot started by the runbot command, over a table that already holds
   tasks: its scheduler runs the job of runbot.py:153 *)

(* A variant whose job is check_deadlines, as in bot.py:533. *)
runbot_job_check_deadlines == check_deadlines

(* The job: lambda: None. The history notes that a job ran and what was due
   then. *)
runbot_job ==
    /\ tick' = [ran |-> TRUE, due |-> DueNow, status |-> StatusNow, out |-> NoOutcome]
    /\ UNCHANGED <<tasks, nextId, clock, YOUR_CHAT_ID, sweep, faults, log,
                   webVars, convVars>>

NextRunbot == runbot_job \/ Tick

SpecRunbot == InitSweep /\ [][NextRunbot]_vars

----------------------------------------------------------------------------
(* Claims about the sweep alone (SpecSweep, SpecSweepFair) *)

Configured == YOUR_CHAT_ID # 0

TickDone == tick.ran /\ sweep.pc = "idle"

(* The task qualified when the current tick read the table. *)
DueAtTickStart(id) == id \in tick.due

(* Every send for the task succeeded, resp. and every overdue write too. *)
SendsSucceeded(id) == log[id].attempts = log[id].sent

NoFailure(id) == SendsSucceeded(id) /\ log[id].werr = 0

(* C1 as stated: over any number of ticks, a task whose sends all succeed is
   sent for at most once, and a finished tick that found it due has sent for
   it once and left it overdue. *)
C1_ExactlyOnceIfSendSucceeds ==
    \A id \in Ids :
        SendsSucceeded(id) =>
            /\ log[id].sent <= 1
            /\ log[id].marks <= 1
            /\ (TickDone /\ Configured /\ DueAtTickStart(id)) =>
                    /\ log[id].sent = 1
                    /\ tasks[id].status = "overdue"

(* C1 amended: the same, for a task whose sends and whose overdue writes all
   succeed: it is sent for and marked overdue at most once over all ticks, and
   a finished tick that found it due has sent one notification, written
   overdue once and left it overdue. *)
C1_ExactlyOnceIfSendAndWriteSucceed ==
    \A id \in Ids :
        NoFailure(id) =>
            /\ log[id].sent <= 1
            /\ log[id].marks <= 1
            /\ (TickDone /\ Configured /\ DueAtTickStart(id)) =>
                    /\ log[id].attempts = 1
                    /\ log[id].sent = 1
                    /\ log[id].marks = 1
                    /\ tasks[id].status = "overdue"

(* A later tick has finished over a task that an earlier tick notified about
   and marked overdue: the later tick did nothing for it. *)
C1_Witness ==
    \E id \in Ids :
        /\ NoFailure(id) /\ log[id].sent = 1 /\ log[id].marks = 1
        /\ tasks[id].status = "overdue"
        /\ TickDone /\ tick.status[id] = "overdue"
        /\ tick.out[id] = "none"

(* C3: a failed send leaves its task as the tick found it, still pending and
   due for the next tick, and the tick goes on: when it has finished, every
   task that was due when it started has had its send attempted, and each one
   whose own send and write did not fail is overdue. *)
C3_FailureIsolation ==
    \A id \in Ids :
        /\ tick.out[id] = "send_failed" =>
                /\ tasks[id].status = tick.status[id]
                /\ Qualifies(tasks[id], clock)
        /\ (TickDone /\ Configured /\ DueAtTickStart(id)) =>
                /\ tick.out[id] \in {"send_failed", "write_failed", "marked"}
                /\ tick.out[id] = "marked" => tasks[id].status = "overdue"

(* The loop is writing overdue for one task after the send for another task
   failed earlier in the same tick. *)
C3_Witness ==
    \E a, b \in Ids :
        /\ a # b
        /\ tick.out[a] = "send_failed" /\ tasks[a].status \in {"new", "in_progress"}
        /\ sweep.pc = "save" /\ Current.id = b /\ tick.out[b] = "sent"

(* C5: with a channel configured, a pending task whose due date has passed is
   eventually notified about and overdue; and a task is notified about more
   than once only as often as its overdue write failed. *)
C5_AtLeastOnce ==
    /\ \A id \in Ids :
          (Configured /\ Exists(id) /\ Qualifies(tasks[id], clock))
              ~> (tasks[id].status = "overdue" /\ log[id].sent >= 1 /\ log[id].marks >= 1)
    /\ [](\A id \in Ids : log[id].sent <= 1 + log[id].werr)

(* A task notified about twice, its first overdue write having failed, and
   overdue in the end. *)
C5_Witness ==
    \E id \in Ids :
        /\ log[id].sent = 2 /\ log[id].werr = 1 /\ log[id].marks = 1
        /\ tasks[id].status = "overdue"

----------------------------------------------------------------------------
(* Claims about the sweep beside the web views (Spec) *)

(* C2: a tick sends nothing for, and writes nothing to, a task that did not
   qualify when the tick read the table: one with no due date, with a due date
   still ahead, or done or overdue. *)
C2_NeverSelected ==
    /\ \A id \in Ids : id \notin tick.due => tick.out[id] = "none"
    /\ sweep.pc \in {"mark", "save"} => Current.id \in tick.due

(* A finished tick has passed over a pending task whose due date was still
   ahead, while time has since reached the due date. *)
C2_Witness ==
    \E id \in DOMAIN tasks :
        /\ TickDone /\ id \notin tick.due /\ tick.out[id] = "none"
        /\ tick.status[id] = "new"
        /\ Qualifies(tasks[id], clock)
        /\ log[id].attempts = 0

(* C4: overdue is written only after a send for the same task succeeded in
   the same tick: mark_task_overdue runs only for a task the tick has sent
   for, and a task has been marked at most as often as it was sent for. *)
C4_OverdueOnlyAfterSend ==
    /\ \A id \in Ids : log[id].marks <= log[id].sent
    /\ sweep.pc \in {"mark", "save"} => tick.out[Current.id] = "sent"
    /\ \A id \in Ids : tick.out[id] = "marked" => log[id].sent >= 1

(* The sweep has marked a task overdue after a send that had failed in an
   earlier tick. *)
C4_Witness ==
    \E id \in DOMAIN tasks :
        /\ tick.out[id] = "marked" /\ tasks[id].status = "overdue"
        /\ log[id].attempts = 2 /\ log[id].sent = 1 /\ log[id].marks = 1

(* C6 as stated: over ticks and web requests, a task whose sends and overdue
   writes all succeed is notified about and marked overdue at most once. *)
C6_SweptOnce ==
    \A id \in Ids : NoFailure(id) => log[id].sent <= 1 /\ log[id].marks <= 1

(* C6 amended: it is notified about and marked at most once, and once more
   for each save of a web request that made it new or in progress after it
   was overdue or deleted. *)
C6_SweptOncePerOpening ==
    \A id \in Ids :
        NoFailure(id) =>
            /\ log[id].sent <= 1 + log[id].reopen
            /\ log[id].marks <= log[id].sent

(* A task notified about and marked twice, a toggle having made it new in
   between. *)
C6_Witness ==
    \E id \in DOMAIN tasks :
        /\ NoFailure(id) /\ log[id].reopen = 1
        /\ log[id].sent = 2 /\ log[id].marks = 2
        /\ tasks[id].status = "overdue"

(* The steps that write a row read earlier. *)
SweepSaves == sweep.pc = "save" /\ log' # log

WebSaves == web.view \in {"toggle", "update"} /\ web'.view = "none"

(* C7, first part: the overdue write of the sweep never replaces a status
   that has become done since the tick read the table. *)
C7_SweepNeverOverwritesDone ==
    [][SweepSaves => (Exists(Current.id) => tasks[Current.id].status # "done")]_vars

(* C7, second part: a row is written back only as it was read, so that no
   write made in between is lost. *)
C7_NoLostUpdate ==
    [][/\ SweepSaves => (Exists(Current.id) /\ tasks[Current.id] = sweep.obj)
       /\ WebSaves => (Exists(web.pk) /\ tasks[web.pk] = web.obj)]_vars

----------------------------------------------------------------------------
(* Claims about task_toggle (SpecToggle) *)

UserCycle == {"new", "in_progress", "done"}

(* C8: a toggle stores new, in progress or done, never overdue, each status
   of the cycle being followed by the next one; and three toggles in a row
   bring a task that was new, in progress or done back to where it was. *)
C8_ToggleCycle ==
    \A id \in Ids :
        /\ tog[id].n >= 1 => tasks[id].status \in UserCycle
        /\ (tog[id].n = 1 /\ tog[id].from = "new") => tasks[id].status = "in_progress"
        /\ (tog[id].n = 1 /\ tog[id].from = "in_progress") => tasks[id].status = "done"
        /\ (tog[id].n = 1 /\ tog[id].from = "done") => tasks[id].status = "new"
        /\ (tog[id].n = 3 /\ tog[id].from \in UserCycle) => tasks[id].status = tog[id].from

(* Tasks toggled three times: one that began in progress and is in progress
   again, beside one that began overdue. *)
C8_Witness ==
    \E a, b \in Ids :
        /\ tog[a].n = 3 /\ tog[a].from = "in_progress" /\ tasks[a].status = "in_progress"
        /\ tog[b].n = 3 /\ tog[b].from = "overdue"

(* C9 as stated: four toggles bring a task back to the status it had. *)
C9_FourTogglesIdentity ==
    \A id \in Ids : tog[id].n = 4 => tasks[id].status = tog[id].from

(* C9 amended: the cycle has three steps, not four: four toggles leave a task
   that was new, in progress or done in the status that follows the one it
   had (as a single toggle does), never in the one it had; the toggles that
   bring it back are three. *)
C9_FourTogglesAdvanceByOne ==
    \A id \in Ids :
        /\ (tog[id].n = 4 /\ tog[id].from = "new") => tasks[id].status = "in_progress"
        /\ (tog[id].n = 4 /\ tog[id].from = "in_progress") => tasks[id].status = "done"
        /\ (tog[id].n = 4 /\ tog[id].from = "done") => tasks[id].status = "new"
        /\ tog[id].n = 4 => tasks[id].status # tog[id].from
        /\ (tog[id].n = 3 /\ tog[id].from \in UserCycle) => tasks[id].status = tog[id].from

(* A task that was done, toggled four times, is new. *)
C9_Witness ==
    \E id \in Ids :
        tog[id].n = 4 /\ tog[id].from = "done" /\ tasks[id].status = "new"

----------------------------------------------------------------------------
(* Claims about the conversation (SpecConv) *)

(* The instant of "25.01.2026 14:30" read in the local zone: 24 days, 14
   hours and 30 minutes after 01.01.2026 00:00 local, which is TzOffset
   minutes before 01.01.2026 00:00 UTC. *)
ExpectedDue(text) ==
    IF text = "25.01.2026 14:30"
    THEN [set |-> TRUE, aware |-> TRUE, t |-> 24 * 1440 + 14 * 60 + 30 - TzOffset]
    ELSE None

ValidDates == {"25.01.2026 14:30"}

(* The user sent new-task and then exactly these three texts. *)
Ran(u, title, description, due) ==
    inp[u].started /\ inp[u].msgs = <<title, description, due>>

(* The conversation created exactly one task, with these fields and status
   new, and left the user in no state with no data. *)
Yields(u, title, description, due_date) ==
    /\ fsm[u] = [state |-> "none", data |-> NoData]
    /\ Cardinality(inp[u].made) = 1
    /\ \A id \in inp[u].made :
        /\ Exists(id)
        /\ made[id] = u
        /\ tasks[id].title = title
        /\ tasks[id].description = description
        /\ tasks[id].due_date = due_date
        /\ tasks[id].status = "new"
    /\ Cardinality({id \in DOMAIN made : made[id] = u /\ id \notin inp[u].made})
         + 1 = Cardinality({id \in DOMAIN made : made[id] = u})

(* C10: new-task, a title text, a description text or the skip keyword, then
   a valid due date or the skip keyword create exactly one task: its title is
   the text, its description the text or empty on skip, its due date the
   date parsed or none on skip, its status new; the user is left in no state
   with no data. "Buy milk", skip, skip gives title "Buy milk", an empty
   description and no due date. *)
C10_ConversationCreatesTask ==
    \A u \in Users :
        /\ Ran(u, "Buy milk", SKIP, SKIP) => Yields(u, "Buy milk", "", None)
        /\ \A title \in PlainTexts, description \in PlainTexts \cup {SKIP},
              due \in ValidDates \cup {SKIP} :
              Ran(u, title, description, due)
                => Yields(u, title,
                          IF description = SKIP THEN "" ELSE description,
                          IF due = SKIP THEN None ELSE ExpectedDue(due))

(* A user ran new-task, "Buy milk", skip and a date: the task has the date's
   instant and an empty description, and the user is in no state. *)
C10_Witness ==
    \E u \in Users, id \in DOMAIN tasks :
        /\ Ran(u, "Buy milk", SKIP, "25.01.2026 14:30")
        /\ inp[u].made = {id}
        /\ tasks[id].description = ""
        /\ tasks[id].due_date = [set |-> TRUE, aware |-> TRUE, t |-> 35250]
        /\ fsm[u].state = "none"

(* User u sent the text in this step. *)
Sent(u, text) ==
    /\ sent' = sent + 1
    /\ IF text = NEW_TASK
       THEN /\ inp'[u] = [inp[u] EXCEPT !.started = TRUE, !.msgs = <<>>, !.made = {},
                                        !.left = @ \cup Accumulated(u)]
            /\ inp'[u] # inp[u]
       ELSE inp[u].started /\ inp'[u] # inp[u]
            /\ inp'[u].msgs = Append(inp[u].msgs, text)

(* The step left u's state and data and the table as they were. *)
Rejected(u) ==
    /\ fsm'[u] = fsm[u]
    /\ tasks' = tasks
    /\ nextId' = nextId
    /\ made' = made

(* The texts of the model that are not a date in the bot's format. *)
NotADate == Texts \ ValidDates

(* C11 as stated: while the bot waits for the due date, every text that is
   not cancel, not skip and not a date leaves the state, the title and the
   description as they were and creates no task. *)
C11_InvalidDateRejected ==
    [][\A u \in Users, text \in NotADate \ {CANCEL, SKIP} :
          (fsm[u].state = "due_date" /\ Sent(u, text)) => Rejected(u)]_vars

(* What holds beside C11: the same for every such text other than the
   new-task command, however often such texts are sent; the new-task command
   takes the user back to the title, the data kept, and creates no task. *)
C11_InvalidDateRejectedUnlessNewTask ==
    [][\A u \in Users :
          /\ \A text \in NotADate \ {CANCEL, SKIP, NEW_TASK} :
                (fsm[u].state = "due_date" /\ Sent(u, text)) => Rejected(u)
          /\ (fsm[u].state = "due_date" /\ Sent(u, NEW_TASK)) =>
                /\ fsm'[u] = [state |-> "title", data |-> fsm[u].data]
                /\ tasks' = tasks]_vars

(* A user has sent the date 31.02.2026 10:00 twice after title and
   description, and still waits for the due date with the same title and
   description, no task made. *)
C11_Witness ==
    \E u \in Users :
        /\ inp[u].started /\ Len(inp[u].msgs) = 4
        /\ inp[u].msgs[3] = "31.02.2026 10:00" /\ inp[u].msgs[4] = "31.02.2026 10:00"
        /\ fsm[u].state = "due_date"
        /\ fsm[u].data.title = inp[u].msgs[1]
        /\ fsm[u].data.description = inp[u].msgs[2]
        /\ "due_date" \notin fsm[u].data.keys
        /\ inp[u].made = {}

ConvStates == {"title", "description", "due_date"}

Range(seq) == {seq[i] : i \in DOMAIN seq}

(* The title and the description of the task hold nothing that a cancel of
   the user discarded, unless the user has entered it again since new-task. *)
NothingDiscarded(u, id) ==
    \A field \in {"title", "description"} :
        tasks[id][field] \in inp[u].dropped \ {""}
            => tasks[id][field] \in Range(inp[u].msgs)

(* C12: cancel in any state of the conversation leaves the user in no state
   with no data and creates no task; and a task committed by a conversation
   begun after a cancel holds none of the data the cancel discarded. *)
C12_CancelDiscards ==
    /\ [][\A u \in Users :
            (fsm[u].state \in ConvStates /\ Sent(u, CANCEL)) =>
                /\ fsm'[u] = [state |-> "none", data |-> NoData]
                /\ tasks' = tasks
                /\ nextId' = nextId
                /\ inp'[u].made = inp[u].made]_vars
    /\ [](\A u \in Users : \A id \in inp[u].made :
            /\ Exists(id)
            /\ NothingDiscarded(u, id)
            /\ inp[u].dropped # {} =>
                  /\ tasks[id].title \in Range(inp[u].msgs)
                  /\ tasks[id].description \in Range(inp[u].msgs) \cup {""})

(* A user whose cancel discarded the title and the description "Old" has
   begun again and committed "Buy milk" with an empty description. *)
C12_Witness ==
    \E u \in Users, id \in DOMAIN tasks :
        /\ inp[u].dropped = {"Old"}
        /\ inp[u].made = {id}
        /\ inp[u].msgs = <<"Buy milk", SKIP, SKIP>>
        /\ tasks[id].title = "Buy milk" /\ tasks[id].description = ""
        /\ fsm[u].state = "none"

----------------------------------------------------------------------------
(* Claims about the conversations of two users (SpecConv) *)

(* The description the design gives for a text: empty for the skip keyword. *)
description_entered(text) == IF text = SKIP THEN "" ELSE text

(* The fields of the task are texts of the user's history since new-task. *)
EnteredBy(u, id) ==
    /\ tasks[id].title \in Range(inp[u].msgs)
    /\ tasks[id].description \in Range(inp[u].msgs) \cup {""}
    /\ tasks[id].due_date \in
          {None} \cup {ExpectedDue(text) : text \in Range(inp[u].msgs) \cap ValidDates}

(* C13: a step changes the state and the data of one user at most, the one
   whose message it handles; and every task holds only what the user who
   committed it has entered. *)
C13_PerUserState ==
    /\ [][\A u \in Users :
            /\ fsm'[u] # fsm[u] => inp'[u] # inp[u]
            /\ inp'[u] # inp[u] =>
                  \A v \in Users \ {u} : fsm'[v] = fsm[v] /\ inp'[v] = inp[v]]_vars
    /\ [](\A u \in Users : \A id \in inp[u].made :
            Exists(id) /\ made[id] = u /\ EnteredBy(u, id))

(* One user has committed the task "Old" and the other, who has begun and
   entered "Buy milk", waits for the description. *)
C13_Witness ==
    \E u, v \in Users, id \in DOMAIN tasks :
        /\ u # v
        /\ inp[u].made = {id} /\ made[id] = u
        /\ tasks[id].title = "Old" /\ tasks[id].description = "Old"
        /\ fsm[u].state = "none"
        /\ fsm[v].state = "description" /\ fsm[v].data.title = "Buy milk"
        /\ inp[v].msgs = <<"Buy milk">>

----------------------------------------------------------------------------
(* Claims about one user's conversation (SpecSolo) *)

(* C14: while the bot waits for the title, every text but cancel is taken as
   the title as it is and the bot goes on to wait for the description; so for
   the menu commands and /start. *)
C14_AnyTextIsTitle ==
    \A u \in Users, text \in Texts \ {CANCEL} :
        (inp[u].started /\ inp[u].msgs = <<text>>) =>
            /\ fsm[u].state = "description"
            /\ "title" \in fsm[u].data.keys
            /\ fsm[u].data.title = text

(* What holds beside C14: the texts that the handlers registered before
   process_title do not take are the title; /start and the texts of the list
   and of the web interface leave the bot waiting for the title. *)
C14_TitleUnlessTakenBefore ==
    \A u \in Users :
        /\ \A text \in Texts \ {CANCEL, START, ALL_TASKS, WEB_INTERFACE, NEW_TASK} :
              (inp[u].started /\ inp[u].msgs = <<text>>) =>
                  fsm[u].state = "description" /\ fsm[u].data.title = text
        /\ \A text \in {START, ALL_TASKS, WEB_INTERFACE} :
              (inp[u].started /\ inp[u].msgs = <<text>>) => fsm[u].state = "title"

(* C15: when new-task found data of a conversation left without cancel, the
   task that the conversation begun by it commits has its title, description
   and due date from the texts entered since, and nothing of what was left. *)
C15_NothingLeftOver ==
    \A u \in Users : \A id \in inp[u].made :
        inp[u].left # {} =>
            /\ Exists(id)
            /\ EnteredBy(u, id)
            /\ Len(inp[u].msgs) = 3 =>
                  /\ tasks[id].title = inp[u].msgs[1]
                  /\ tasks[id].description = description_entered(inp[u].msgs[2])
                  /\ tasks[id].due_date =
                        IF inp[u].msgs[3] = SKIP THEN None
                        ELSE ExpectedDue(inp[u].msgs[3])

(* A user left waiting for the due date with title and description "Old" has
   sent new-task, "Buy milk", skip and skip: the task is "Buy milk" with an
   empty description. *)
C15_Witness ==
    \E u \in Users, id \in DOMAIN tasks :
        /\ inp[u].left = {"Old"}
        /\ inp[u].made = {id}
        /\ inp[u].msgs = <<"Buy milk", SKIP, SKIP>>
        /\ tasks[id].title = "Buy milk"
        /\ tasks[id].description = ""
        /\ tasks[id].due_date = None

----------------------------------------------------------------------------
(* C16: delete_task_by_id returns False for an id that has no row, without
   raising and with the table left as it was, and True for an id that has
   one, after which the table holds no row of that id. *)

Returns == ret' /= ret /\ ret.pc \in {"found", "delete"} /\ ret'.pc = "idle"

C16_DeleteReturnsWhetherRowExisted ==
    [][/\ (ret' /= ret /\ ret.pc = "found" /\ ~Exists(ret.id))
            => Returns /\ ret'.result = "False" /\ tasks' = tasks
       /\ (ret' /= ret /\ ret.pc = "found" /\ Exists(ret.id))
            => ret'.pc = "delete" /\ ret'.id = ret.id /\ tasks' = tasks
       /\ (ret' /= ret /\ ret.pc = "delete")
            => Returns /\ ret'.result = "True" /\ ret.id \notin DOMAIN tasks'
       /\ Returns
            => /\ ret'.result \in {"True", "False"}
               /\ ret'.outcome /= "raised"
               /\ \A id \in DOMAIN tasks \ {ret.id} :
                      id \in DOMAIN tasks' /\ tasks'[id] = tasks[id]]_vars

(* True was returned for a row that is gone, beside a row that stayed. *)
C16_Witness ==
    /\ ret.result = "True"
    /\ ret.id \notin DOMAIN tasks
    /\ ret.id \in 1..(nextId - 1)
    /\ DOMAIN tasks /= {}

(* False was returned: a request of the web deleted the row after the callback
   had found it. *)
C16_ReturnedFalse ==
    /\ ret.result = "False"
    /\ ret.id \in 1..(nextId - 1)
    /\ ret.id \notin DOMAIN tasks

----------------------------------------------------------------------------
(* C17: a delete callback whose payload is "delete_" followed by a suffix that
   is no number ends with the not-found answer and with no error. *)

NonNumericPayloads == {"delete_abc", "delete_"}

C17_NonNumericIsNotFound ==
    (ret.call = "delete_task_callback" /\ ret.data \in NonNumericPayloads)
        => ret.outcome = "not_found"

(* What holds beside C17: such a callback changes no task. *)
C17_NonNumericChangesNoTask ==
    [][(ret' /= ret /\ ret'.data \in NonNumericPayloads) => tasks' = tasks]_vars

----------------------------------------------------------------------------
(* C18: the web list holds every task of the table and the bot list holds the
   min(50, n) most recently created ones, both with the newest first, after
   any creates and deletes. *)

NewestFirst(L) ==
    \A i, j \in DOMAIN L : i < j => tasks[L[i]].created_at > tasks[L[j]].created_at

C18_ListsNewestFirst ==
    LET n == Cardinality(DOMAIN tasks) IN
    /\ ret.call = "task_list" =>
          /\ Len(ret.list) = n
          /\ Range(ret.list) = DOMAIN tasks
          /\ NewestFirst(ret.list)
    /\ ret.call = "get_all_tasks" =>
          /\ Len(ret.list) = IF n < 50 THEN n ELSE 50
          /\ Range(ret.list) \subseteq DOMAIN tasks
          /\ NewestFirst(ret.list)
          /\ \A old \in DOMAIN tasks \ Range(ret.list), id \in Range(ret.list) :
                 tasks[old].created_at < tasks[id].created_at

(* The bot listed a table of more than 50 rows, after creates and a delete:
   50 rows came back and the oldest row is not among them. *)
C18_Witness ==
    /\ ret.call = "get_all_tasks"
    /\ Cardinality(DOMAIN tasks) > 50
    /\ nextId - 1 > Cardinality(DOMAIN tasks)
    /\ Len(ret.list) = 50
    /\ \E old \in DOMAIN tasks : old \notin Range(ret.list)

----------------------------------------------------------------------------
(* C19: the due date of every row is unset or aware, whichever path wrote the
   row, and a task created with a naive due date is stored with the aware
   instant that reading has in the local zone. *)

C19_DueDatesStoredAware ==
    /\ [](\A id \in DOMAIN tasks : tasks[id].due_date.set => tasks[id].due_date.aware)
    /\ [][(ret' /= ret /\ ret'.call = "create_task" /\ ret'.given.set
              /\ ~ret'.given.aware)
            => /\ ret'.id \in DOMAIN tasks'
               /\ tasks'[ret'.id].due_date =
                     [set |-> TRUE, aware |-> TRUE, t |-> ret'.given.t - TzOffset]]_vars

(* create_task was called with the naive reading 03:01 of the first day, the
   row holds the instant one minute past the start of that day in UTC, and the
   sweep has since marked the row overdue. *)
C19_Witness ==
    /\ ret.call = "create_task"
    /\ ret.given = [set |-> TRUE, aware |-> FALSE, t |-> 181]
    /\ ret.id \in DOMAIN tasks
    /\ tasks[ret.id].due_date = [set |-> TRUE, aware |-> TRUE, t |-> 1]
    /\ tasks[ret.id].status = "overdue"

----------------------------------------------------------------------------
(* C20: the status of every row is new, in_progress, done or overdue in every
   state, and a row has status new right after create_task of the bot or
   task_create of the web made it. *)

C20_StatusOfFourNewAtCreation ==
    /\ [](\A id \in DOMAIN tasks :
              tasks[id].status \in {"new", "in_progress", "done", "overdue"})
    /\ [][nextId' /= nextId
            => /\ nextId \in DOMAIN tasks' \ DOMAIN tasks
               /\ tasks'[nextId].status = "new"]_vars

(* A task made by create_task of the bot has been marked overdue by the sweep
   and toggled back by the web. *)
C20_Witness ==
    /\ ret.call = "create_task"
    /\ ret.id \in DOMAIN tasks
    /\ log[ret.id].marks > 0
    /\ tasks[ret.id].status = "new"

----------------------------------------------------------------------------
(* C21: a task's id and created_at stay as they were at creation: the saves
   of task_toggle and of mark_task_overdue change the status of their row and
   nothing else in the table, the save of task_update leaves the status and
   created_at of its row as they are, and a row appears only under a new
   id. *)

OnlyStatusOf(id) ==
    /\ Exists(id)
    /\ tasks' = [tasks EXCEPT ![id].status = tasks'[id].status]

C21_IdAndCreatedAtKept ==
    [][/\ \A id \in DOMAIN tasks \cap DOMAIN tasks' :
              tasks'[id].created_at = tasks[id].created_at
       /\ \A id \in DOMAIN tasks' \ DOMAIN tasks : id = nextId /\ nextId' = nextId + 1
       /\ SweepSaves => OnlyStatusOf(Current.id)
       /\ (WebSaves /\ web.view = "toggle") => OnlyStatusOf(web.pk)
       /\ (WebSaves /\ web.view = "update") =>
              /\ Exists(web.pk)
              /\ tasks'[web.pk].status = tasks[web.pk].status
              /\ \A id \in DOMAIN tasks \ {web.pk} :
                     id \in DOMAIN tasks' /\ tasks'[id] = tasks[id]]_vars

(* An overdue task whose due date was edited to none is overdue still. *)
C21_EditedStaysOverdue ==
    \E id \in DOMAIN tasks :
        /\ tasks[id].status = "overdue"
        /\ tasks[id].title = "b"
        /\ ~tasks[id].due_date.set
        /\ log[id].marks = 1

----------------------------------------------------------------------------
(* C22: the save of a toggle that read its task overdue (or in any status but
   new and in progress) leaves the task new, and a task left so whose due date
   has passed qualifies for the sweep again. *)

C22_ToggleReopensOverdue ==
    [][(WebSaves /\ web.view = "toggle" /\ web.obj.status \notin {"new", "in_progress"})
          => /\ web.pk \in DOMAIN tasks'
             /\ tasks'[web.pk].status = "new"
             /\ (web.obj.due_date.set /\ web.obj.due_date.t <= clock)
                    => Qualifies(tasks'[web.pk], clock')]_vars

(* A task marked overdue and then toggled, the second of two requests and the
   first for this task, is in the snapshot of a new tick, which is about to
   send for it again. *)
C22_Witness ==
    /\ sweep.pc = "loop"
    /\ Current.id \in tick.due
    /\ Current.row.status = "new"
    /\ log[Current.id].marks = 1
    /\ log[Current.id].reopen = 1
    /\ Current.row.title = "a"
    /\ reqs = 2
    /\ web.view = "none"

----------------------------------------------------------------------------
(* C23: with no chat id configured the sweep sends nothing and writes
   nothing: over any number of ticks no send is attempted, no task is marked,
   and the table stays as it is, every due task with the status it has. *)

C23_NoChatNoSweep ==
    /\ [](YOUR_CHAT_ID = 0 =>
             \A id \in Ids :
                 /\ log[id].attempts = 0 /\ log[id].sent = 0 /\ log[id].marks = 0
                 /\ tick.out[id] = "none")
    /\ [][YOUR_CHAT_ID = 0 => tasks' = tasks]_vars

(* With no chat id, a tick has run to its end over a task that was due and
   time has gone on to the end of the run: the task is due still, new or in
   progress as it was, and nothing was sent for it. *)
C23_Witness ==
    /\ YOUR_CHAT_ID = 0
    /\ TickDone
    /\ clock = MaxClock
    /\ \E id \in tick.due :
          /\ Qualifies(tasks[id], clock)
          /\ tick.status[id] = tasks[id].status
          /\ tick.out[id] = "none"

----------------------------------------------------------------------------
(* C24: when the task was deleted after the tick read the pending tasks,
   the step of mark_task_overdue that comes next finds no row, writes none
   (the task is not created again) and the loop goes on to its next task. *)

MarkSteps == sweep.pc \in {"mark", "save"} /\ sweep' # sweep /\ faults' = faults

C24_DeletedIsNotMarked ==
    [][(MarkSteps /\ ~Exists(Current.id))
          => /\ tick'.out[Current.id] = "not_found"
             /\ tasks' = tasks
             /\ sweep' = Advance]_vars

(* What holds beside C24: it is so when the task is deleted before
   mark_task_overdue reads it. *)
C24_DeletedBeforeGetIsNotMarked ==
    [][(MarkSteps /\ sweep.pc = "mark" /\ ~Exists(Current.id))
          => /\ tick'.out[Current.id] = "not_found"
             /\ tasks' = tasks
             /\ sweep' = Advance]_vars

(* mark_task_overdue found no row for a task the tick had sent for. *)
C24_NotFoundReached ==
    \E id \in Ids : tick.out[id] = "not_found" /\ ~Exists(id) /\ log[id].sent = 1

----------------------------------------------------------------------------
(* C25: in the bot started by the runbot command the scheduled job does
   nothing: however often it runs and whatever is due, nothing is sent, no
   task is marked and the table stays as it is. *)

C25_RunbotJobDoesNothing ==
    /\ [](\A id \in Ids :
              /\ log[id].attempts = 0 /\ log[id].sent = 0 /\ log[id].marks = 0
              /\ tick.out[id] = "none")
    /\ [][tasks' = tasks]_vars

(* A chat id is configured and the job has run at the end of the run over a
   task that is due: the task is new or in progress as before. *)
C25_Witness ==
    /\ YOUR_CHAT_ID # 0
    /\ tick.ran
    /\ clock = MaxClock
    /\ \E id \in tick.due :
          /\ Qualifies(tasks[id], clock)
          /\ tasks[id].status = tick.status[id]
          /\ log[id].attempts = 0

----------------------------------------------------------------------------
(* Claims about the forms of the web (SpecForms) *)

(* The step of a create POST, and the due-date text of a form. *)
CreatePost == reqs' # reqs /\ web'.view = "none" /\ post'.view = "create"

DueText(form) == IF "due_date" \in form.keys THEN form.due_date ELSE ""

(* The texts of the model that are a date and a time in the form's format,
   and their instants: 03:01 and 03:02 of 01.01.2026 local are one and two
   minutes after 00:00 UTC. *)
WebParses == {"2026-01-01T03:01", "2026-1-1T3:1", "2026-01-01T03:02"}

WebInstant(text) ==
    [set |-> TRUE, aware |-> TRUE, t |-> IF text = "2026-01-01T03:02" THEN 2 ELSE 1]

(* The POST adds one row under the next id, with the title of the form, new,
   and with the due date of the text, none when the text does not parse. *)
CreatesOne(form) ==
    /\ nextId \notin DOMAIN tasks
    /\ DOMAIN tasks' = DOMAIN tasks \cup {nextId}
    /\ \A id \in DOMAIN tasks : tasks'[id] = tasks[id]
    /\ tasks'[nextId].title = form.title
    /\ tasks'[nextId].status = "new"
    /\ tasks'[nextId].due_date =
          IF DueText(form) \in WebParses THEN WebInstant(DueText(form)) ELSE None

(* The save of task_update leaves the due date of the text: none for the
   empty text, the one the task had when the text does not parse. *)
UpdatesDue(form) ==
    /\ web.pk \in DOMAIN tasks'
    /\ tasks'[web.pk].due_date =
          IF DueText(form) = "" THEN None
          ELSE IF DueText(form) \in WebParses THEN WebInstant(DueText(form))
          ELSE web.obj.due_date

(* C26 as stated: every create POST makes one task, with no due date when
   the text does not parse, and every save of task_update clears the due date
   for the empty text and keeps it for a text that does not parse. *)
C26_EveryPostCreatesOne ==
    [][/\ CreatePost => CreatesOne(post'.form)
       /\ (WebSaves /\ web.view = "update") => UpdatesDue(web.form)]_vars

(* C26 amended: it is so for the POSTs that carry a title, whatever the title
   is; a POST without one writes nothing and ends with an error. *)
C26_PostWithTitleCreatesOne ==
    [][/\ (CreatePost /\ "title" \in post'.form.keys) =>
              CreatesOne(post'.form) /\ post'.status = "redirect"
       /\ (CreatePost /\ "title" \notin post'.form.keys) =>
              tasks' = tasks /\ post'.status = "error"
       /\ (WebSaves /\ web.view = "update" /\ "title" \in web.form.keys) =>
              UpdatesDue(web.form)
       /\ (WebSaves /\ web.view = "update" /\ "title" \notin web.form.keys) =>
              tasks' = tasks]_vars

(* A POST with an empty title and the due date "tomorrow" has made a task with
   that title and no due date. *)
C26_Witness ==
    /\ post.view = "create"
    /\ post.form.keys = {"title", "description", "due_date"}
    /\ post.form.title = ""
    /\ post.form.due_date = "tomorrow"
    /\ post.id \in DOMAIN tasks
    /\ tasks[post.id].title = ""
    /\ ~tasks[post.id].due_date.set

(* A task made with the due date 03:01 has it still after one edit, which gave
   the title b. *)
C26_EditKeptDue ==
    /\ post.view = "create"
    /\ post.form.due_date = "2026-01-01T03:01"
    /\ post.id \in DOMAIN tasks
    /\ tasks[post.id].title = "b"
    /\ tasks[post.id].due_date = [set |-> TRUE, aware |-> TRUE, t |-> 1]
    /\ reqs = 2

====
